---- MODULE Spec2Model ----
(***************************************************************************)
(* The Hedgewars server protocol decoder                                   *)
(* (rust/hedgewars-server/src/protocol/parser.rs) as a state machine.      *)
(*                                                                         *)
(* A byte slice is a sequence of one-byte values.  An ASCII byte is the    *)
(* one-character string of its character; the three non-ASCII bytes the    *)
(* model uses are named "xC3", "xA9" (together the UTF-8 encoding of one   *)
(* character) and "xFF" (never valid in UTF-8).                            *)
(*                                                                         *)
(* A parser result (HwResult) is a triple <<kind, rest, value>>:           *)
(*   <<"Ok", remaining input, parsed value>>                               *)
(*   <<"Error", <<>>, "HwProtocolError">>      nom::Err::Error             *)
(*   <<"Failure", <<>>, origin>>               nom::Err::Failure; origin   *)
(*        names the conversion (From<Utf8Error>, From<ParseIntError>)      *)
(*        that built the HwProtocolError                                   *)
(***************************************************************************)
EXTENDS Integers, Sequences, FiniteSets, TLC

VARIABLES
    msg,      \* <<m>> when the peer encoded message m, <<>> when raw bytes arrived
    buf,      \* the connection's inbound buffer
    pc,       \* "idle", "first", "second" while bytes arrive; then the
              \* caller's position: "run", "failed", "done"
    hist      \* the parser calls made so far, oldest first:
              \* <<function, input, result>>

vars == <<msg, buf, pc, hist>>

(***************************************************************************)
(* Byte slices                                                             *)
(***************************************************************************)
NL == "\n"
CR == "\r"
SP == " "

\* b"..." : the bytes of an ASCII string literal
B(s) == [k \in 1..Len(s) |-> SubSeq(s, k, k)]

Drop(i, n) == SubSeq(i, n + 1, Len(i))
Take(i, n) == SubSeq(i, 1, n)

Ok(i, v) == <<"Ok", i, v>>
IsOk(r) == r[1] = "Ok"
IsError(r) == r[1] = "Error"
IsFailure(r) == r[1] = "Failure"

\* HwProtocolError::new() wrapped in nom::Err::Error
ErrError == <<"Error", <<>>, "HwProtocolError">>
\* impl ParseError for HwProtocolError: every nom error kind maps to the same value
from_error_kind == ErrError
\* impl From<Utf8Error> / From<ParseIntError>, wrapped in nom::Err::Failure
ErrFailure(origin) == <<"Failure", <<>>, origin>>

MinOf(S) == CHOOSE k \in S : \A j \in S : k <= j

(***************************************************************************)
(* nom 5 combinators (bytes::complete, character::complete, combinator,    *)
(* multi, sequence, branch), as the parser uses them                       *)
(***************************************************************************)
tag(t, i) ==
    IF Len(i) >= Len(t) /\ Take(i, Len(t)) = t
    THEN Ok(Drop(i, Len(t)), t)
    ELSE from_error_kind

Fold == [a |-> "A", b |-> "B", c |-> "C", d |-> "D", e |-> "E", f |-> "F",
         g |-> "G", h |-> "H", i |-> "I", j |-> "J", k |-> "K", l |-> "L",
         m |-> "M", n |-> "N", o |-> "O", p |-> "P", q |-> "Q", r |-> "R",
         s |-> "S", t |-> "T", u |-> "U", v |-> "V", w |-> "W", x |-> "X",
         y |-> "Y", z |-> "Z"]

to_upper(c) == IF c \in DOMAIN Fold THEN Fold[c] ELSE c

tag_no_case(t, i) ==
    IF Len(i) >= Len(t) /\ \A k \in 1..Len(t) : to_upper(i[k]) = to_upper(t[k])
    THEN Ok(Drop(i, Len(t)), Take(i, Len(t)))
    ELSE from_error_kind

\* take_while(cond): the longest prefix whose bytes satisfy cond; never fails
take_while(cond(_), i) ==
    LET stop == {k \in 1..Len(i) : ~cond(i[k])}
        n == IF stop = {} THEN Len(i) ELSE MinOf(stop) - 1
    IN  Ok(Drop(i, n), Take(i, n))

MaxOf(S) == CHOOSE k \in S : \A j \in S : k >= j

\* a take_until that searches from the end: everything before the last
\* occurrence of t
take_until_last(t, i) ==
    LET at == {k \in 1..(Len(i) - Len(t) + 1) : SubSeq(i, k, k + Len(t) - 1) = t}
    IN  IF at = {} THEN from_error_kind
        ELSE Ok(Drop(i, MaxOf(at) - 1), Take(i, MaxOf(at) - 1))

\* take_until(t): everything before the first occurrence of t; Error if none
take_until(t, i) ==
    LET at == {k \in 1..(Len(i) - Len(t) + 1) : SubSeq(i, k, k + Len(t) - 1) = t}
    IN  IF at = {} THEN from_error_kind
        ELSE Ok(Drop(i, MinOf(at) - 1), Take(i, MinOf(at) - 1))

newline(i) ==
    IF i # <<>> /\ i[1] = NL THEN Ok(Tail(i), NL) ELSE from_error_kind

\* a not_line_ending that asks for the line ending: an Error on an input
\* that holds none
not_line_ending_terminated(i) ==
    LET stop == {k \in 1..Len(i) : i[k] = NL}
    IN  IF stop = {} THEN from_error_kind
        ELSE Ok(Drop(i, MinOf(stop) - 1), Take(i, MinOf(stop) - 1))

\* character::complete::not_line_ending: stops before the first "\n" or
\* "\r\n"; the whole input when it holds neither "\r" nor "\n"; a "\r" that
\* is not followed by "\n" is an Error
not_line_ending(i) ==
    LET stop == {k \in 1..Len(i) : i[k] \in {CR, NL}}
    IN  IF stop = {} THEN Ok(<<>>, i)
        ELSE LET index == MinOf(stop)
             IN  IF i[index] = CR /\ ~(index < Len(i) /\ i[index + 1] = NL)
                 THEN from_error_kind
                 ELSE Ok(Drop(i, index - 1), Take(i, index - 1))

\* the `?` operator on a parser's result: on Ok the rest of the function
\* gets the remaining input and the value, an Err is returned as it is
try(r, k(_, _)) == IF IsOk(r) THEN k(r[2], r[3]) ELSE r

\* combinator::map, and the `.map(|(i, v)| (i, f(v)))` of a result
map(r, f(_)) == IF IsOk(r) THEN Ok(r[2], f(r[3])) ELSE r

peek(p(_), i) == try(p(i), LAMBDA rest, v : Ok(i, v))

\* alt((p1, ..., pn))(i), given the sequence <<p1(i), ..., pn(i)>>: the first
\* result that is not an Error; an Error when every alternative is one
alt(rs) ==
    LET hit == {k \in 1..Len(rs) : ~IsError(rs[k])}
    IN  IF hit = {} THEN from_error_kind ELSE rs[MinOf(hit)]

precededc(i, first(_), second(_)) ==
    try(first(i), LAMBDA rest, v : second(rest))

terminatedc(i, first(_), second(_)) ==
    try(first(i), LAMBDA rest, v : try(second(rest), LAMBDA j, w : Ok(j, v)))

pairc(i, first(_), second(_)) ==
    try(first(i), LAMBDA rest, v : map(second(rest), LAMBDA w : <<v, w>>))

(***************************************************************************)
(* Lexical primitives                                                      *)
(***************************************************************************)
\* an end_of_message whose mismatch is fatal
end_of_message_fatal(input) ==
    IF IsOk(tag(B("\n\n"), input)) THEN tag(B("\n\n"), input)
    ELSE ErrFailure("HwProtocolError")

\* an end_of_message that also swallows the separators after the terminator
end_of_message_greedy(input) ==
    try(tag(B("\n\n"), input),
        LAMBDA rest, v : take_while(LAMBDA c : c = NL, rest))

\* an end_of_message that looks at the terminator and leaves it in place
end_of_message_peek(input) == peek(LAMBDA i : tag(B("\n\n"), i), input)

end_of_message(input) == tag(B("\n\n"), input)

\* str::from_utf8 over the model's bytes
from_utf8(b) ==
    \A k \in 1..Len(b) :
        /\ b[k] # "xFF"
        /\ b[k] = "xC3" => (k < Len(b) /\ b[k + 1] = "xA9")
        /\ b[k] = "xA9" => (k > 1 /\ b[k - 1] = "xC3")

convert_utf8(input) ==
    IF from_utf8(input) THEN Ok(<<>>, input) ELSE ErrFailure("Utf8Error")

Digits == <<"0", "1", "2", "3", "4", "5", "6", "7", "8", "9">>
IsDigit(c) == \E d \in 1..10 : Digits[d] = c
DigitVal(c) == (CHOOSE d \in 1..10 : Digits[d] = c) - 1

\* One step of the checked accumulation: acc * 10 + digit in 32 bits.  The
\* accumulator is <<high 16 bits, low 16 bits>>; <<>> once a checked
\* multiplication or addition has overflowed.
checked_step(acc, lo) ==
    IF acc[1] * 10 + lo \div 65536 > 65535 THEN <<>>
    ELSE <<acc[1] * 10 + lo \div 65536, lo % 65536>>

RECURSIVE checked_digits(_, _)
checked_digits(acc, ds) ==
    IF ds = <<>> \/ acc = <<>> THEN acc
    ELSE checked_digits(checked_step(acc, acc[2] * 10 + DigitVal(ds[1])), Tail(ds))

\* the value of a digit string in the width: <<v>>, or <<>> on overflow
checked_value(v, bits) ==
    IF v = <<>> THEN <<>>
    ELSE IF bits = 32 THEN <<v>>
    ELSE IF v[1] = 0 /\ v[2] < 2 ^ bits THEN <<v[2]>>
    ELSE <<>>

\* <uN as FromStr>::from_str: an optional "+", then at least one decimal
\* digit, the value checked against the width; <<>> stands for ParseIntError
from_digits(ds, bits) ==
    IF ds = <<>> \/ (\E k \in 1..Len(ds) : ~IsDigit(ds[k])) THEN <<>>
    ELSE checked_value(checked_digits(<<0, 0>>, ds), bits)

from_str(str, bits) ==
    from_digits(IF str # <<>> /\ str[1] = "+" THEN Tail(str) ELSE str, bits)

from_parsed(x) == IF x # <<>> THEN Ok(<<>>, x[1]) ELSE ErrFailure("ParseIntError")

\* a convert_from_str whose conversion error is recoverable
convert_from_str_recoverable(str, bits) ==
    IF from_str(str, bits) # <<>> THEN Ok(<<>>, from_str(str, bits)[1])
    ELSE ErrError

convert_from_str(str, bits) == from_parsed(from_str(str, bits))

\* a str_line for which an empty line is a conversion failure
str_line_fatal(input) ==
    try(not_line_ending(input),
        LAMBDA i, line :
            IF i # input
            THEN try(convert_utf8(line), LAMBDA e, s : Ok(i, s))
            ELSE ErrFailure("Utf8Error"))

str_line(input) ==
    try(not_line_ending(input),
        LAMBDA i, line :
            IF i # input
            THEN try(convert_utf8(line), LAMBDA e, s : Ok(i, s))
            ELSE ErrError)

a_line(input) == str_line(input)

hw_tag(tag_str, i) == map(tag(tag_str, i), LAMBDA v : <<>>)

hw_tag_no_case(tag_str, i) == map(tag_no_case(tag_str, i), LAMBDA v : <<>>)

\* a cmd_arg that a space does not end
cmd_arg_spaced(input) ==
    try(take_while(LAMBDA c : c # NL, input),
        LAMBDA i, token :
            IF i # input
            THEN try(convert_utf8(token), LAMBDA e, s : Ok(i, s))
            ELSE ErrError)

cmd_arg(input) ==
    try(take_while(LAMBDA c : c \notin {SP, NL}, input),
        LAMBDA i, token :
            IF i # input
            THEN try(convert_utf8(token), LAMBDA e, s : Ok(i, s))
            ELSE ErrError)

uint_line(input, bits) ==
    try(str_line(input),
        LAMBDA i, line :
            try(convert_from_str(line, bits), LAMBDA e, n : Ok(i, n)))

u8_line(input) == uint_line(input, 8)

\* a u16_line of the width of u8_line
u16_line_narrow(input) == uint_line(input, 8)

u16_line(input) == uint_line(input, 16)
u32_line(input) == uint_line(input, 32)

yes_no_line(input) ==
    alt(<< map(tag_no_case(B("YES"), input), LAMBDA v : TRUE),
           map(tag_no_case(B("NO"), input), LAMBDA v : FALSE) >>)

\* Option<T>: None is <<>>, Some(v) is <<v>>
None == <<>>
Some(v) == <<v>>

\* an opt_arg that does not look for the end of the message first
opt_arg_required(input) ==
    map(precededc(input, LAMBDA i : hw_tag(B("\n"), i), a_line), Some)

opt_arg(input) ==
    alt(<< map(peek(end_of_message, input), LAMBDA v : None),
           map(precededc(input, LAMBDA i : hw_tag(B("\n"), i), a_line), Some) >>)

spaces(input) ==
    precededc(input, LAMBDA i : hw_tag(B(" "), i),
              LAMBDA i : take_while(LAMBDA c : c = SP, i))

opt_space_arg(input) ==
    alt(<< map(peek(end_of_message, input), LAMBDA v : None),
           map(precededc(input, spaces, a_line), Some) >>)

\* multi::separated_list(sep, f), for the two instances the parser uses:
\* kind "newline" is separated_list(newline, a_line), kind "spaces" is
\* separated_list(spaces, cmd_arg)
list_sep(kind, i) == IF kind = "newline" THEN newline(i) ELSE spaces(i)
list_item(kind, i) == IF kind = "newline" THEN a_line(i) ELSE cmd_arg(i)

\* what the loop does with the result r of the separator or of the item on
\* input i: an Error ends the list, a Failure is returned, a parser that
\* consumed nothing is an Error, and otherwise the loop goes on
list_step(r, i, acc, k(_, _)) ==
    IF IsError(r) THEN Ok(i, acc)
    ELSE IF ~IsOk(r) THEN r
    ELSE IF r[2] = i THEN from_error_kind
    ELSE k(r[2], r[3])

\* a loop of separated_list that collects the items last to first
RECURSIVE separated_list_loop_reversed(_, _, _)
separated_list_loop_reversed(kind, i, acc) ==
    list_step(list_sep(kind, i), i, acc,
        LAMBDA i1, s :
            list_step(list_item(kind, i1), i, acc,
                LAMBDA i2, o : separated_list_loop_reversed(kind, i2, <<o>> \o acc)))

RECURSIVE separated_list_loop(_, _, _)
separated_list_loop(kind, i, acc) ==
    list_step(list_sep(kind, i), i, acc,
        LAMBDA i1, s :
            list_step(list_item(kind, i1), i, acc,
                LAMBDA i2, o : separated_list_loop(kind, i2, Append(acc, o))))

separated_list(kind, i) ==
    list_step(list_item(kind, i), i, <<>>,
        LAMBDA i1, o : separated_list_loop(kind, i1, <<o>>))

\* the parsers that tables below name
apply(parser, i) ==
    CASE parser = "a_line" -> a_line(i)
      [] parser = "opt_arg" -> opt_arg(i)
      [] parser = "u8_line" -> u8_line(i)
      [] parser = "u16_line" -> u16_line(i)
      [] parser = "u32_line" -> u32_line(i)
      [] parser = "yes_no_line" -> yes_no_line(i)
      [] parser = "tag_YES" -> tag(B("YES"), i)

\* `let (i, a) = terminatedc(i, p1, newline)?; ... let (i, z) = pn(i)?;`
\* the parsers named in ps one after the other, a newline between two of
\* them; the value is the sequence of their values
RECURSIVE lines(_, _, _)
lines(i, ps, acc) ==
    try(apply(ps[1], i),
        LAMBDA i1, v :
            IF Len(ps) = 1 THEN Ok(i1, Append(acc, v))
            ELSE try(newline(i1),
                     LAMBDA i2, n : lines(i2, Tail(ps), Append(acc, v))))

(***************************************************************************)
(* Structured values                                                       *)
(***************************************************************************)
\* a roster one record shorter
SHORTER_ROSTER == 8 - 1

MAX_HEDGEHOGS_PER_TEAM == 8

HedgehogInfo(f) == [name |-> f[1], hat |-> f[2]]

hedgehog_line(input) ==
    map(lines(input, <<"a_line", "a_line">>, <<>>), HedgehogInfo)

\* h1 .. h7 are terminatedc(i, hedgehog_line, newline), h8 is hedgehog_line
RECURSIVE hedgehog_array_from(_, _)
hedgehog_array_from(i, acc) ==
    try(IF Len(acc) = MAX_HEDGEHOGS_PER_TEAM - 1 THEN hedgehog_line(i)
        ELSE terminatedc(i, hedgehog_line, newline),
        LAMBDA i1, h :
            IF Len(acc) = MAX_HEDGEHOGS_PER_TEAM - 1 THEN Ok(i1, Append(acc, h))
            ELSE hedgehog_array_from(i1, Append(acc, h)))

hedgehog_array(input) == hedgehog_array_from(input, <<>>)

\* precededc(i, precededc(hw_tag_no_case(name), spaces), parser)
vote_arg(input, name, parser(_)) ==
    precededc(input,
              LAMBDA i : precededc(i, LAMBDA j : hw_tag_no_case(name, j), spaces),
              parser)

voting(input) ==
    alt(<< map(tag_no_case(B("PAUSE"), input), LAMBDA v : <<"Pause">>),
           map(tag_no_case(B("NEWSEED"), input), LAMBDA v : <<"NewSeed">>),
           map(vote_arg(input, B("KICK"), a_line), LAMBDA v : <<"Kick", v>>),
           map(vote_arg(input, B("HEDGEHOGS"), u8_line),
               LAMBDA v : <<"HedgehogsPerTeam", v>>),
           map(precededc(input, LAMBDA i : hw_tag_no_case(B("MAP"), i),
                         opt_space_arg),
               LAMBDA v : <<"Map", v>>) >>)

(***************************************************************************)
(* Message categories.  A message is <<variant, payload...>>.              *)
(***************************************************************************)
\* a no_arg table that also holds QUIT, a keyword of single_arg_message
no_arg_table_with_quit ==
    << <<B("PING"), "Ping">>,
       <<B("PONG"), "Pong">>,
       <<B("QUIT"), "List">> >>

no_arg_table ==
    << <<B("PING"), "Ping">>,
       <<B("PONG"), "Pong">>,
       <<B("LIST"), "List">>,
       <<B("BANLIST"), "BanList">>,
       <<B("GET_SERVER_VAR"), "GetServerVar">>,
       <<B("TOGGLE_READY"), "ToggleReady">>,
       <<B("START_GAME"), "StartGame">>,
       <<B("TOGGLE_RESTRICT_JOINS"), "ToggleRestrictJoin">>,
       <<B("TOGGLE_RESTRICT_TEAMS"), "ToggleRestrictTeams">>,
       <<B("TOGGLE_REGISTERED_ONLY"), "ToggleRegisteredOnly">> >>

no_arg_messagec(input, name, m) == map(tag(name, input), LAMBDA v : m)

no_arg_message(input) ==
    alt([k \in 1..Len(no_arg_table) |->
            no_arg_messagec(input, no_arg_table[k][1], <<no_arg_table[k][2]>>)])

\* the constructor closures: |_| RoundFinished, |_| RestartServer,
\* |v| CallVote(Some(v)), and the plain variant constructors
construct(constructor, v) ==
    CASE constructor \in {"RoundFinished", "RestartServer"} -> <<constructor>>
      [] constructor = "CallVote" -> <<"CallVote", Some(v)>>
      [] OTHER -> <<constructor, v>>

single_arg_table ==
    << <<B("NICK\n"), "a_line", "Nick">>,
       <<B("INFO\n"), "a_line", "Info">>,
       <<B("CHAT\n"), "a_line", "Chat">>,
       <<B("PART"), "opt_arg", "Part">>,
       <<B("FOLLOW\n"), "a_line", "Follow">>,
       <<B("KICK\n"), "a_line", "Kick">>,
       <<B("UNBAN\n"), "a_line", "Unban">>,
       <<B("EM\n"), "a_line", "EngineMessage">>,
       <<B("TEAMCHAT\n"), "a_line", "TeamChat">>,
       <<B("ROOM_NAME\n"), "a_line", "RoomName">>,
       <<B("REMOVE_TEAM\n"), "a_line", "RemoveTeam">>,
       <<B("ROUNDFINISHED"), "opt_arg", "RoundFinished">>,
       <<B("PROTO\n"), "u16_line", "Proto">>,
       <<B("QUIT"), "opt_arg", "Quit">> >>

single_arg_messagec(input, name, parser, constructor) ==
    map(precededc(input, LAMBDA i : hw_tag(name, i), LAMBDA i : apply(parser, i)),
        LAMBDA v : construct(constructor, v))

single_arg_message(input) ==
    alt([k \in 1..Len(single_arg_table) |->
            single_arg_messagec(input, single_arg_table[k][1],
                                single_arg_table[k][2], single_arg_table[k][3])])

cmd_no_arg_table ==
    << <<B("STATS"), "Stats">>,
       <<B("FIX"), "Fix">>,
       <<B("UNFIX"), "Unfix">>,
       <<B("REGISTERED_ONLY"), "ToggleServerRegisteredOnly">>,
       <<B("SUPER_POWER"), "SuperPower">> >>

cmdc_no_arg(input, name, m) == map(tag_no_case(name, input), LAMBDA v : m)

cmd_no_arg_message(input) ==
    alt([k \in 1..Len(cmd_no_arg_table) |->
            cmdc_no_arg(input, cmd_no_arg_table[k][1], <<cmd_no_arg_table[k][2]>>)])

cmd_single_arg_table ==
    << <<B("RESTART_SERVER"), "tag_YES", "RestartServer">>,
       <<B("DELEGATE"), "a_line", "Delegate">>,
       <<B("DELETE"), "a_line", "Delete">>,
       <<B("SAVEROOM"), "a_line", "SaveRoom">>,
       <<B("LOADROOM"), "a_line", "LoadRoom">>,
       <<B("GLOBAL"), "a_line", "Global">>,
       <<B("WATCH"), "u32_line", "Watch">>,
       <<B("VOTE"), "yes_no_line", "Vote">>,
       <<B("FORCE"), "yes_no_line", "ForceVote">>,
       <<B("INFO"), "a_line", "Info">>,
       <<B("MAXTEAMS"), "u8_line", "MaxTeams">>,
       <<B("CALLVOTE"), "voting", "CallVote">> >>

\* the parsers the CMD table names: those of apply, and voting
cmd_apply(parser, i) == IF parser = "voting" THEN voting(i) ELSE apply(parser, i)

cmdc_single_arg(input, name, parser, constructor) ==
    map(precededc(input,
            LAMBDA i : pairc(i, LAMBDA j : hw_tag_no_case(name, j), spaces),
            LAMBDA i : cmd_apply(parser, i)),
        LAMBDA v : construct(constructor, v))

cmd_single_arg_message(input) ==
    alt([k \in 1..Len(cmd_single_arg_table) |->
            cmdc_single_arg(input, cmd_single_arg_table[k][1],
                            cmd_single_arg_table[k][2],
                            cmd_single_arg_table[k][3])])

\* the alternatives of cmd_message after the two tables: CALLVOTE alone,
\* GREETING / PART / QUIT with opt_space_arg, SAVE, RND
cmd_opt_space(input, name, constructor) ==
    map(precededc(input, LAMBDA i : hw_tag_no_case(name, i), opt_space_arg),
        LAMBDA v : <<constructor, v>>)

cmd_save(input) ==
    map(precededc(input, LAMBDA i : hw_tag_no_case(B("SAVE"), i),
            LAMBDA i : pairc(i, LAMBDA j : precededc(j, spaces, cmd_arg),
                                LAMBDA j : precededc(j, spaces, cmd_arg))),
        LAMBDA v : <<"Save", v[1], v[2]>>)

cmd_rnd(input) ==
    map(precededc(input, LAMBDA i : tag_no_case(B("RND"), i),
            LAMBDA i :
                alt(<< map(peek(end_of_message, i), LAMBDA v : <<>>),
                       precededc(i, spaces,
                                 LAMBDA j : separated_list("spaces", j)) >>)),
        LAMBDA v : <<"Rnd", v>>)

cmd_message(input) ==
    precededc(input, LAMBDA i : hw_tag(B("CMD\n"), i),
        LAMBDA i :
            alt(<< cmd_no_arg_message(i),
                   cmd_single_arg_message(i),
                   map(tag_no_case(B("CALLVOTE"), i),
                       LAMBDA v : <<"CallVote", None>>),
                   cmd_opt_space(i, B("GREETING"), "Greeting"),
                   cmd_opt_space(i, B("PART"), "Part"),
                   cmd_opt_space(i, B("QUIT"), "Quit"),
                   cmd_save(i),
                   cmd_rnd(i) >>))

cfg_single_arg_table ==
    << <<B("THEME"), "a_line", "Theme">>,
       <<B("SCRIPT"), "a_line", "Script">>,
       <<B("MAP"), "a_line", "MapType">>,
       <<B("MAPGEN"), "u32_line", "MapGenerator">>,
       <<B("MAZE_SIZE"), "u32_line", "MazeSize">>,
       <<B("TEMPLATE"), "u32_line", "Template">>,
       <<B("FEATURE_SIZE"), "u32_line", "FeatureSize">>,
       <<B("SEED"), "a_line", "Seed">>,
       <<B("DRAWNMAP"), "a_line", "DrawnMap">> >>

\* precededc(input, |i| terminatedc(i, hw_tag(name), newline), parser)
keyword_line(input, name, parser(_)) ==
    precededc(input,
              LAMBDA i : terminatedc(i, LAMBDA j : hw_tag(name, j), newline),
              parser)

cfgc_single_arg(input, name, parser, constructor) ==
    map(keyword_line(input, name, LAMBDA i : apply(parser, i)),
        LAMBDA v : <<constructor, v>>)

cfg_ammo(input) ==
    keyword_line(input, B("AMMO"),
        LAMBDA i :
            try(a_line(i),
                LAMBDA i1, name :
                    map(opt_arg(i1), LAMBDA value : <<"Ammo", name, value>>)))

\* values.unwrap_or_default(): None and Some(vec![]) both give the empty list
cfg_scheme(input) ==
    keyword_line(input, B("SCHEME"),
        LAMBDA i :
            try(a_line(i),
                LAMBDA i1, name :
                    map(alt(<< map(peek(end_of_message, i1), LAMBDA v : <<>>),
                               precededc(i1, newline,
                                   LAMBDA j : separated_list("newline", j)) >>),
                        LAMBDA values : <<"Scheme", name, values>>)))

config_message(input) ==
    map(precededc(input, LAMBDA i : hw_tag(B("CFG\n"), i),
            LAMBDA i :
                alt([k \in 1..Len(cfg_single_arg_table) |->
                       cfgc_single_arg(i, cfg_single_arg_table[k][1],
                                       cfg_single_arg_table[k][2],
                                       cfg_single_arg_table[k][3])]
                    \o << cfg_ammo(i), cfg_scheme(i) >>)),
        LAMBDA v : <<"Cfg", v>>)

server_var_table ==
    << <<B("MOTD_NEW\n"), "a_line", "MOTDNew">>,
       <<B("MOTD_OLD\n"), "a_line", "MOTDOld">>,
       <<B("LATEST_PROTO\n"), "u16_line", "LatestProto">> >>

server_var_message(input) ==
    precededc(input, LAMBDA i : hw_tag(B("SET_SERVER_VAR\n"), i),
        LAMBDA i :
            alt([k \in 1..Len(server_var_table) |->
                   map(precededc(i,
                           LAMBDA j : hw_tag(server_var_table[k][1], j),
                           LAMBDA j : apply(server_var_table[k][2], j)),
                       LAMBDA v : <<"SetServerVar",
                                    <<server_var_table[k][3], v>> >>)]))

\* the alternatives of complex_message that read a fixed sequence of lines
complex_lines_table ==
    << <<B("PASSWORD"), <<"a_line", "a_line">>, "Password">>,
       <<B("CHECKER"), <<"u16_line", "a_line", "a_line">>, "Checker">>,
       <<B("CREATE_ROOM"), <<"a_line">>, "CreateRoom">>,
       <<B("JOIN_ROOM"), <<"a_line">>, "JoinRoom">>,
       <<B("ADD_TEAM"), <<"a_line", "u8_line", "a_line", "a_line", "a_line",
                          "a_line", "u8_line">>, "AddTeam">>,
       <<B("HH_NUM"), <<"a_line", "u8_line">>, "SetHedgehogsNumber">>,
       <<B("TEAM_COLOR"), <<"a_line", "u8_line">>, "SetTeamColor">>,
       <<B("BAN"), <<"a_line", "a_line", "u32_line">>, "Ban">>,
       <<B("BAN_IP"), <<"a_line", "a_line", "u32_line">>, "BanIP">>,
       <<B("BAN_NICK"), <<"a_line", "a_line", "u32_line">>, "BanNick">> >>

TeamInfo(f, hedgehogs) ==
    [owner |-> <<>>, name |-> f[1], color |-> f[2], grave |-> f[3],
     fort |-> f[4], voice_pack |-> f[5], flag |-> f[6], difficulty |-> f[7],
     hedgehogs |-> hedgehogs, hedgehogs_number |-> 0]

\* what follows the line sequence: opt_arg for CREATE_ROOM and JOIN_ROOM, a
\* newline and hedgehog_array for ADD_TEAM, nothing for the others
complex_body(i, ps, constructor) ==
    try(lines(i, ps, <<>>),
        LAMBDA i1, f :
            IF constructor \in {"CreateRoom", "JoinRoom"}
            THEN map(opt_arg(i1), LAMBDA pass : <<constructor, f[1], pass>>)
            ELSE IF constructor = "AddTeam"
            THEN map(precededc(i1, newline, hedgehog_array),
                     LAMBDA hedgehogs : <<"AddTeam", TeamInfo(f, hedgehogs)>>)
            ELSE Ok(i1, <<constructor>> \o f))

complex_message(input) ==
    alt([k \in 1..Len(complex_lines_table) |->
            keyword_line(input, complex_lines_table[k][1],
                LAMBDA i : complex_body(i, complex_lines_table[k][2],
                                        complex_lines_table[k][3]))])

(***************************************************************************)
(* Entry points                                                            *)
(***************************************************************************)
\* a resync that stops in front of the terminator
malformed_message_keep(input) ==
    map(take_until(B("\n\n"), input), LAMBDA v : <<>>)

malformed_message(input) ==
    map(terminatedc(input, LAMBDA i : take_until(B("\n\n"), i), end_of_message),
        LAMBDA v : <<>>)

\* the alternation of message: the six categories in the order of the code
message_categories(i) ==
    alt(<< no_arg_message(i),
           single_arg_message(i),
           cmd_message(i),
           config_message(i),
           server_var_message(i),
           complex_message(i) >>)

\* a message that skips one leading separator at most
message_skip_one(input) ==
    precededc(input,
        LAMBDA i : IF IsOk(newline(i)) THEN newline(i) ELSE Ok(i, <<>>),
        LAMBDA i : terminatedc(i, message_categories, end_of_message))

message(input) ==
    precededc(input, LAMBDA i : take_while(LAMBDA c : c = NL, i),
        LAMBDA i : terminatedc(i, message_categories, end_of_message))


(***************************************************************************)
(* The encoder (HwProtocolMessage::to_raw_protocol, protocol/messages.rs), *)
(* from the wire formats of the specification: the fields of a message,    *)
(* each in the place the decoder reads it, then the frame terminator.      *)
(***************************************************************************)
div_mod_10(v) ==
    LET t == (v[1] % 10) * 65536 + v[2]
    IN  << <<v[1] \div 10, t \div 10>>, t % 10 >>

RECURSIVE decimal_digits(_)
decimal_digits(v) ==
    IF v = <<0, 0>> THEN <<>>
    ELSE LET qr == div_mod_10(v)
         IN  Append(decimal_digits(qr[1]), Digits[qr[2] + 1])

\* u32::to_string(), the value given as <<high, low>>
u32_to_string(v) == IF v = <<0, 0>> THEN <<"0">> ELSE decimal_digits(v)

\* u8::to_string() and u16::to_string()
to_string(n) == u32_to_string(<<0, n>>)

RECURSIVE join(_, _)
join(items, sep) ==
    IF items = <<>> THEN <<>>
    ELSE IF Len(items) = 1 THEN items[1]
    ELSE items[1] \o sep \o join(Tail(items), sep)

RECURSIVE concat(_)
concat(items) == IF items = <<>> THEN <<>> ELSE items[1] \o concat(Tail(items))

Rows(table) == {table[k] : k \in 1..Len(table)}
RowOf(table, constructor) == CHOOSE t \in Rows(table) : t[Len(t)] = constructor
Names(table) == {t[Len(t)] : t \in Rows(table)}

\* a field as the parser named p reads it
field_bytes(p, v) ==
    CASE p \in {"u8_line", "u16_line"} -> to_string(v)
      [] p = "u32_line" -> u32_to_string(v)
      [] p = "yes_no_line" -> IF v THEN B("YES") ELSE B("NO")
      [] p = "tag_YES" -> B("YES")
      [] p = "opt_arg" -> IF v = None THEN <<>> ELSE <<NL>> \o v[1]
      [] OTHER -> v

opt_space_bytes(v) == IF v = None THEN <<>> ELSE <<SP>> \o v[1]

vote_bytes(v) ==
    CASE v[1] = "Pause" -> B("PAUSE")
      [] v[1] = "NewSeed" -> B("NEWSEED")
      [] v[1] = "Kick" -> B("KICK ") \o v[2]
      [] v[1] = "HedgehogsPerTeam" -> B("HEDGEHOGS ") \o to_string(v[2])
      [] v[1] = "Map" -> B("MAP") \o opt_space_bytes(v[2])

cfg_bytes(c) ==
    CASE c[1] = "Ammo" -> B("AMMO\n") \o c[2] \o field_bytes("opt_arg", c[3])
      [] c[1] = "Scheme" -> B("SCHEME\n") \o join(<<c[2]>> \o c[3], <<NL>>)
      [] OTHER -> LET t == RowOf(cfg_single_arg_table, c[1])
                  IN  t[1] \o <<NL>> \o field_bytes(t[2], c[2])

team_bytes(t) ==
    join(<<t.name, to_string(t.color), t.grave, t.fort, t.voice_pack, t.flag,
           to_string(t.difficulty)>>
         \o [k \in 1..Len(t.hedgehogs) |->
                t.hedgehogs[k].name \o <<NL>> \o t.hedgehogs[k].hat],
         <<NL>>)

body_bytes(m) ==
    CASE m[1] \in Names(no_arg_table) -> RowOf(no_arg_table, m[1])[1]
      [] m[1] = "RoundFinished" -> B("ROUNDFINISHED")
      [] m[1] \in Names(single_arg_table) \ {"RoundFinished"} ->
            LET t == RowOf(single_arg_table, m[1])
            IN  t[1] \o field_bytes(t[2], m[2])
      [] m[1] \in Names(cmd_no_arg_table) ->
            B("CMD\n") \o RowOf(cmd_no_arg_table, m[1])[1]
      [] m[1] = "RestartServer" -> B("CMD\nRESTART_SERVER YES")
      [] m[1] = "CallVote" ->
            B("CMD\nCALLVOTE")
            \o (IF m[2] = None THEN <<>> ELSE <<SP>> \o vote_bytes(m[2][1]))
      [] m[1] \in Names(cmd_single_arg_table) \ {"RestartServer", "CallVote", "Info"} ->
            LET t == RowOf(cmd_single_arg_table, m[1])
            IN  B("CMD\n") \o t[1] \o <<SP>> \o field_bytes(t[2], m[2])
      [] m[1] = "Greeting" -> B("CMD\nGREETING") \o opt_space_bytes(m[2])
      [] m[1] = "Save" -> B("CMD\nSAVE ") \o m[2] \o <<SP>> \o m[3]
      [] m[1] = "Rnd" -> B("CMD\nRND") \o concat([k \in 1..Len(m[2]) |-> <<SP>> \o m[2][k]])
      [] m[1] = "Cfg" -> B("CFG\n") \o cfg_bytes(m[2])
      [] m[1] = "SetServerVar" ->
            LET t == RowOf(server_var_table, m[2][1])
            IN  B("SET_SERVER_VAR\n") \o t[1] \o field_bytes(t[2], m[2][2])
      [] m[1] \in {"CreateRoom", "JoinRoom"} ->
            RowOf(complex_lines_table, m[1])[1] \o <<NL>> \o m[2]
            \o field_bytes("opt_arg", m[3])
      [] m[1] = "AddTeam" -> B("ADD_TEAM\n") \o team_bytes(m[2])
      [] OTHER ->
            LET t == RowOf(complex_lines_table, m[1])
            IN  t[1] \o <<NL>>
                \o join([k \in 1..Len(t[2]) |-> field_bytes(t[2][k], m[k + 1])],
                        <<NL>>)

to_raw_protocol(m) == body_bytes(m) \o B("\n\n")


(***************************************************************************)
(* Inputs.  The peer either encodes one message of Messages, or the        *)
(* transport delivers raw bytes: stray frame separators, then a frame made *)
(* of a keyword path and of what follows it, then possibly another frame.  *)
(***************************************************************************)
MaxLead == 2        \* stray "\n" bytes before the first frame
MaxList == 2        \* entries of an encoded Rnd or Scheme list
MaxRoster == 9      \* roster records of a raw ADD_TEAM frame

Texts ==
    { B(""), B("a"), B("ab"), B("a b"), B(" a"), B("a\nb"), B("a\rb"),
      <<"xC3", "xA9">> }
U8s == {0, 7, 255}
U16s == {0, 51, 65535}
U32s == { <<0, 0>>, <<0, 77>>, <<1, 0>>, <<65535, 65535>> }
Opts == {None} \cup {Some(t) : t \in Texts}
Lists == UNION {[1..n -> Texts] : n \in 0..MaxList}

Values(p) ==
    CASE p = "a_line" -> Texts
      [] p = "opt_arg" -> Opts
      [] p = "u8_line" -> U8s
      [] p = "u16_line" -> U16s
      [] p = "u32_line" -> U32s
      [] p = "yes_no_line" -> BOOLEAN

Votes ==
    { <<"Pause">>, <<"NewSeed">> }
    \cup { <<"Kick", t>> : t \in Texts }
    \cup { <<"HedgehogsPerTeam", n>> : n \in U8s }
    \cup { <<"Map", o>> : o \in Opts }

Configs ==
    UNION { { <<t[3], x>> : x \in Values(t[2]) } : t \in Rows(cfg_single_arg_table) }
    \cup { <<"Ammo", n, o>> : n \in Texts, o \in Opts }
    \cup { <<"Scheme", n, l>> : n \in {B("s")}, l \in Lists }
    \cup { <<"Scheme", n, l>> : n \in Texts, l \in { <<>>, <<B("a")>> } }

BaseTeam ==
    [owner |-> <<>>, name |-> B("t"), color |-> 1, grave |-> B("g"),
     fort |-> B("f"), voice_pack |-> B("v"), flag |-> B("fl"), difficulty |-> 2,
     hedgehogs |-> [k \in 1..MAX_HEDGEHOGS_PER_TEAM |-> [name |-> B("n"), hat |-> B("h")]],
     hedgehogs_number |-> 0]

Teams ==
    { [BaseTeam EXCEPT ![f] = t] :
        f \in {"name", "grave", "fort", "voice_pack", "flag"}, t \in Texts }
    \cup { [BaseTeam EXCEPT ![f] = n] : f \in {"color", "difficulty"}, n \in U8s }
    \cup { [BaseTeam EXCEPT !.hedgehogs[k][f] = t] :
             k \in {1, MAX_HEDGEHOGS_PER_TEAM}, f \in {"name", "hat"}, t \in Texts }
    \cup { [BaseTeam EXCEPT !.owner = B("me")],
           [BaseTeam EXCEPT !.hedgehogs_number = 4] }

LineMessages(t) ==
    IF Len(t[2]) = 1
    THEN { <<t[3], a, o>> : a \in Values(t[2][1]), o \in Opts }
    ELSE IF Len(t[2]) = 2
    THEN { <<t[3], a, b>> : a \in Values(t[2][1]), b \in Values(t[2][2]) }
    ELSE { <<t[3], a, b, c>> : a \in Values(t[2][1]), b \in Values(t[2][2]),
                               c \in Values(t[2][3]) }

Messages ==
    { <<n>> : n \in Names(no_arg_table) \cup Names(cmd_no_arg_table)
                    \cup {"RoundFinished", "RestartServer"} }
    \cup UNION { { <<t[3], x>> : x \in Values(t[2]) } :
                   t \in { u \in Rows(single_arg_table) : u[3] # "RoundFinished" } }
    \cup UNION { { <<t[3], x>> : x \in Values(t[2]) } :
                   t \in { u \in Rows(cmd_single_arg_table) :
                             u[3] \notin {"RestartServer", "CallVote"} } }
    \cup { <<"CallVote", o>> : o \in {None} \cup {Some(v) : v \in Votes} }
    \cup { <<"Greeting", o>> : o \in Opts }
    \cup { <<"Save", a, b>> : a \in Texts, b \in Texts }
    \cup { <<"Rnd", l>> : l \in Lists }
    \cup { <<"Cfg", c>> : c \in Configs }
    \cup UNION { { <<"SetServerVar", <<t[3], x>> >> : x \in Values(t[2]) } :
                   t \in Rows(server_var_table) }
    \cup UNION { LineMessages(t) :
                   t \in { u \in Rows(complex_lines_table) : u[3] # "AddTeam" } }
    \cup { <<"AddTeam", t>> : t \in Teams }

\* keyword paths: every tag of the tables, the CALLVOTE votes, lower-case
\* spellings, an unknown keyword, the bare prefixes and nothing at all
Heads ==
    { t[1] : t \in Rows(no_arg_table) \cup Rows(single_arg_table)
                   \cup Rows(complex_lines_table) }
    \cup { B("CMD\n") \o t[1] :
             t \in Rows(cmd_no_arg_table) \cup Rows(cmd_single_arg_table) }
    \cup { B("CMD\n") \o k :
             k \in { B("GREETING"), B("PART"), B("QUIT"), B("SAVE"), B("RND"),
                     B("watch"), B("CALLVOTE PAUSE"), B("CALLVOTE NEWSEED"),
                     B("CALLVOTE KICK"), B("CALLVOTE HEDGEHOGS"), B("CALLVOTE MAP"),
                     B("callvote hedgehogs"), <<>> } }
    \cup { B("CFG\n") \o k :
             k \in { t[1] : t \in Rows(cfg_single_arg_table) }
                   \cup { B("AMMO"), B("SCHEME"), <<>> } }
    \cup { B("SET_SERVER_VAR\n") \o k :
             k \in { t[1] : t \in Rows(server_var_table) } \cup { <<>> } }
    \cup { B("FOO"), B("ping"), <<>> }

\* what follows a keyword path
Tails ==
    { B(""), B("\n"), B("\n\n"), B("\n\n\n"), B(" \n\n"),
      B("a"), B("\na"), B(" a"),
      B("a\n\n"), B("\na\n\n"), B(" a\n\n"), B("  a b\n\n"),
      B("51\n\n"), B("\n51\n\n"), B(" 51\n\n"),
      B("300\n\n"), B("\n300\n\n"), B(" 300\n\n"),
      B("65536\n\n"), B("\n65536\na\nb\n\n"),
      B(" 4294967295\n\n"), B(" 4294967296\n\n"), B("\n4294967296\n\n"),
      B("+5\n\n"), B(" -5\n\n"),
      <<"x", "xFF", NL, NL>>, <<NL, "xFF", NL, NL>>, <<SP, "xFF", NL, NL>>,
      <<NL, "xC3", "xA9", NL, NL>>, <<"xC3", NL, NL>>,
      B("\na\rb\n\n"), B("\na\r\n\n"), B("a\r\n\n"),
      B("\n1\n2\n\n"), B("\na\n7\n\n"), B("\na\n300\n\n"), B("\na\nb\n77\n\n"),
      B("\na\nb\n4294967296\n\n"), B("\n51\na\nb\n\n"),
      B(" YES\n\n"), B(" no\n\n") }

\* the lines of a raw ADD_TEAM frame after the keyword; the first seven are
\* the team's fields, every two lines after them one roster record
TeamLines ==
    { [k \in 1..7 + n |->
         IF k \in {2, 7} THEN B("1") ELSE IF k > 7 /\ k % 2 = 1 THEN B("h")
         ELSE B("n")] : n \in 0..2 * MaxRoster }
    \cup { [k \in 1..9 |-> IF k = 2 THEN B("1") ELSE IF k = 7 THEN B("256") ELSE B("n")],
           [k \in 1..9 |-> IF k = 2 THEN B("x") ELSE IF k = 7 THEN B("1") ELSE B("n")],
           [k \in 1..11 |-> IF k \in {2, 7} THEN B("1")
                            ELSE IF k = 10 THEN <<"xFF">> ELSE B("n")] }

Frames ==
    { h \o t : h \in Heads, t \in Tails }
    \cup { B("ADD_TEAM\n") \o join(l, <<NL>>) \o B("\n\n") : l \in TeamLines }

\* the first frame of a stream of several: frames with an optional argument
\* or a list at their end, rejected frames and bytes without a terminator
Firsts ==
    { B("PING\n\n"), B("QUIT\n\n"), B("QUIT\nbye\n\n"), B("PART\na\n\n"),
      B("CFG\nSCHEME\ns\na\nb\n\n"), B("CFG\nSCHEME\ns\n\n"),
      B("CMD\nRND a b\n\n"), B("CMD\nRND\n\n"),
      B("CFG\nAMMO\na\n\n"), B("CFG\nAMMO\na\nb\n\n"),
      B("CREATE_ROOM\nr\n\n"), B("JOIN_ROOM\nr\np\n\n"),
      B("CMD\nGREETING\n\n"), B("CMD\nCALLVOTE MAP\n\n"), B("CMD\nCALLVOTE\n\n"),
      B("PROTO\n51\n\n"), B("NICK\nme\n\n"),
      B("FOO\n\n"), B("FOO\n\n\n"), B("FOO\n"), B("FOO"), B(""), B("\n\n"),
      B("QUIT\n1\n2\n\n"), B("PROTO\nx\n\n"), B("NICK\n\n"), B("PING\n"),
      B("PING\n\n\n"), <<"xFF", NL, NL>>, B("QUIT\na\rb\n\n") }

\* a frame that may follow the first one
Followers == { B("PING\n\n"), B("\nQUIT\nbye\n\n"), B("x\n\n"), B("") }

(***************************************************************************)
(* The connection: bytes arrive, then the caller decodes in a loop; when a *)
(* decode fails it calls the resync helper and decodes again, and it stops *)
(* when the helper finds no frame terminator.                              *)
(***************************************************************************)
Init ==
    /\ msg = <<>>
    /\ buf = <<>>
    /\ pc = "idle"
    /\ hist = <<>>

\* the peer encodes one message and sends it
Send(m) ==
    /\ pc = "idle"
    /\ msg' = <<m>>
    /\ buf' = to_raw_protocol(m)
    /\ pc' = "run"
    /\ UNCHANGED hist

\* the transport delivers one raw frame
Receive(f) ==
    /\ pc = "idle"
    /\ buf' = f
    /\ pc' = "run"
    /\ UNCHANGED <<msg, hist>>

\* k stray frame separators arrive, then a stream of two frames
Stray(k) ==
    /\ pc = "idle"
    /\ buf' = [j \in 1..k |-> NL]
    /\ pc' = "first"
    /\ UNCHANGED <<msg, hist>>

Feed(f) ==
    /\ pc = "first"
    /\ buf' = buf \o f
    /\ pc' = "second"
    /\ UNCHANGED <<msg, hist>>

FeedMore(f) ==
    /\ pc = "second"
    /\ buf' = buf \o f
    /\ pc' = "run"
    /\ UNCHANGED <<msg, hist>>

\* decode(buffer): on success the remainder is the next call's input
Decode ==
    /\ pc = "run"
    /\ hist = <<>> \/ buf # <<>>
    /\ LET r == message(buf)
       IN  /\ hist' = Append(hist, <<"message", buf, r>>)
           /\ \/ IsOk(r) /\ buf' = r[2] /\ pc' = "run"
              \/ ~IsOk(r) /\ buf' = buf /\ pc' = "failed"
    /\ UNCHANGED msg

\* the resync helper, after a failed decode or on a connection that opens
\* in the middle of a frame
Resync ==
    /\ pc = "failed" \/ (pc = "run" /\ hist = <<>>)
    /\ LET r == malformed_message(buf)
       IN  /\ hist' = Append(hist, <<"malformed_message", buf, r>>)
           /\ \/ IsOk(r) /\ buf' = r[2] /\ pc' = "run"
              \/ ~IsOk(r) /\ buf' = buf /\ pc' = "done"
    /\ UNCHANGED msg

Next ==
    \/ pc = "idle" /\ \E m \in Messages : Send(m)
    \/ pc = "idle" /\ \E f \in Frames : Receive(f)
    \/ pc = "idle" /\ \E k \in 0..MaxLead : Stray(k)
    \/ pc = "first" /\ \E f \in Firsts : Feed(f)
    \/ pc = "second" /\ \E f \in Followers : FeedMore(f)
    \/ Decode
    \/ Resync

Spec == Init /\ [][Next]_vars

\* the calls of message on single frames: one frame arrives and the caller
\* decodes until a call fails
NextFrame ==
    \/ pc = "idle" /\ \E f \in Frames : Receive(f)
    \/ Decode

FrameSpec == Init /\ [][NextFrame]_vars

\* the text-line primitive on its own: bytes arrive and a_line is applied
\* to them once
ReadLine ==
    /\ pc = "run"
    /\ hist' = Append(hist, <<"a_line", buf, a_line(buf)>>)
    /\ pc' = "done"
    /\ UNCHANGED <<msg, buf>>

NextLine ==
    \/ pc = "idle" /\ \E f \in Frames : Receive(f)
    \/ pc = "idle" /\ \E t \in Texts, e \in {<<>>, <<"xFF">>} : Receive(t \o e)
    \/ ReadLine

LineSpec == Init /\ [][NextLine]_vars

\* the last parser call and its parts
Called == hist # <<>>
Last == hist[Len(hist)]
LastFn == Last[1]
LastIn == Last[2]
LastRes == Last[3]

(***************************************************************************)
(* Properties of the decoder.  Each is stated about the last parser call   *)
(* of the history, so that it is checked for every call the caller makes.  *)
(***************************************************************************)
\* the number of frame separators a buffer begins with
LeadingSeparators(b) ==
    MinOf({k \in 1..Len(b) + 1 : k > Len(b) \/ b[k] # NL}) - 1

\* a buffer without the frame separators it begins with
Stripped(b) == Drop(b, LeadingSeparators(b))

\* what a caller can tell of a result: the message and the remainder, or
\* the failure class
Outcome(r) == IF IsOk(r) THEN r ELSE <<r[1]>>

\* the places of a buffer where a frame terminator begins
Terminators(b) == {p \in 1..Len(b) - 1 : b[p] = NL /\ b[p + 1] = NL}

\* bytes that do not begin with a frame terminator
NotTerminated(rest) == Len(rest) < 2 \/ rest[1] # NL \/ rest[2] # NL

\* one of the six categories accepts a prefix of the buffer, and what
\* follows the prefix is not the frame terminator
AcceptedPrefix(b) ==
    /\ IsOk(message_categories(Stripped(b)))
    /\ NotTerminated(message_categories(Stripped(b))[2])

\* C10: leading separators are ignored.  A call of message on a buffer that
\* begins with any number of "\n" bytes has the outcome (message and
\* remainder, or failure class) of message on the buffer without them.
C10_LeadingSeparatorsIgnored ==
    Called /\ LastFn = "message" =>
        Outcome(LastRes) = Outcome(message(Stripped(LastIn)))

\* a frame decoded behind three stray separators
C10_Witness ==
    /\ Called /\ LastFn = "message"
    /\ LeadingSeparators(LastIn) = 3
    /\ IsOk(LastRes)

\* C4 as the code has it: when a category accepts a prefix of the input and
\* the bytes after it are not the "\n\n" terminator, message returns the
\* recoverable class Err::Error.
C4_TrailingContentIsError ==
    Called /\ LastFn = "message" /\ AcceptedPrefix(LastIn) => IsError(LastRes)

\* C4 as the specification states it: the same input gives Err::Failure.
C4_TrailingContentIsFailure ==
    Called /\ LastFn = "message" /\ AcceptedPrefix(LastIn) => IsFailure(LastRes)

\* QUIT with its one argument line, then a second line
C4_Witness ==
    /\ Called /\ LastFn = "message"
    /\ LastIn = B("QUIT\n1\n2\n\n")
    /\ AcceptedPrefix(LastIn)
    /\ IsError(LastRes)

\* the place of the first byte c of b
FirstAt(b, c) == MinOf({k \in 1..Len(b) : b[k] = c})

\* the pieces of b between the occurrences of the byte c
RECURSIVE Split(_, _)
Split(b, c) ==
    IF \A k \in 1..Len(b) : b[k] # c THEN <<b>>
    ELSE <<Take(b, FirstAt(b, c) - 1)>> \o Split(Drop(b, FirstAt(b, c)), c)

\* the lines of a buffer, from its first byte that is no separator
FrameLines(b) == Split(Stripped(b), NL)

\* the first frame of a buffer, its terminator included; all of the buffer
\* when it holds no terminator
FirstFrame(b) ==
    IF Terminators(Stripped(b)) = {} THEN Stripped(b)
    ELSE Take(Stripped(b), MinOf(Terminators(Stripped(b))) + 1)

\* the bytes after the first frame
AfterFrame(b) == Drop(Stripped(b), Len(FirstFrame(b)))

\* a text the decoder can yield for a line: not empty, no "\n", no "\r",
\* valid UTF-8
TextOk(t) ==
    /\ t # <<>>
    /\ \A k \in 1..Len(t) : t[k] \notin {NL, CR}
    /\ from_utf8(t)

\* a line as the decoder delimits it: not empty and without "\r"
Delimited(x) == x # <<>> /\ \A k \in 1..Len(x) : x[k] # CR

\* a line that is a number of the width, or a text when the width is 0
FieldOk(x, bits) == TextOk(x) /\ (bits = 0 \/ from_str(x, bits) # <<>>)

\* The numeric lines of the protocol: the keyword lines, the widths of the
\* lines between the keyword and the numeric line (0 for a text line), and
\* the width of the numeric line.
NumericLines ==
    { << <<B("PROTO")>>, <<>>, 16 >>,
      << <<B("CHECKER")>>, <<>>, 16 >>,
      << <<B("SET_SERVER_VAR"), B("LATEST_PROTO")>>, <<>>, 16 >>,
      << <<B("CFG"), B("MAPGEN")>>, <<>>, 32 >>,
      << <<B("CFG"), B("MAZE_SIZE")>>, <<>>, 32 >>,
      << <<B("CFG"), B("TEMPLATE")>>, <<>>, 32 >>,
      << <<B("CFG"), B("FEATURE_SIZE")>>, <<>>, 32 >>,
      << <<B("HH_NUM")>>, <<0>>, 8 >>,
      << <<B("TEAM_COLOR")>>, <<0>>, 8 >>,
      << <<B("BAN")>>, <<0, 0>>, 32 >>,
      << <<B("BAN_IP")>>, <<0, 0>>, 32 >>,
      << <<B("BAN_NICK")>>, <<0, 0>>, 32 >>,
      << <<B("ADD_TEAM")>>, <<0>>, 8 >>,
      << <<B("ADD_TEAM")>>, <<0, 8, 0, 0, 0, 0>>, 8 >> }

\* the numeric arguments of CMD: the words before the number, its width
NumericArgs ==
    { << <<B("WATCH")>>, 32 >>,
      << <<B("MAXTEAMS")>>, 8 >>,
      << <<B("CALLVOTE"), B("HEDGEHOGS")>>, 8 >> }

\* the lines L hold the numeric line of the row
HasNumericLine(L, row) ==
    /\ Len(L) > Len(row[1]) + Len(row[2])
    /\ \A k \in 1..Len(row[1]) : L[k] = row[1][k]
    /\ \A k \in 1..Len(row[2]) : FieldOk(L[Len(row[1]) + k], row[2][k])

NumericLineOf(L, row) == L[Len(row[1]) + Len(row[2]) + 1]

\* a line without the spaces it begins with
Unspaced(line) ==
    Drop(line, MinOf({k \in 1..Len(line) + 1 : k > Len(line) \/ line[k] # SP}) - 1)

\* what follows the words in the line, each word in any case and followed
\* by at least one space; <<>> when the line does not begin with the words
RECURSIVE AfterWords(_, _)
AfterWords(line, words) ==
    IF words = <<>> THEN line
    ELSE IF /\ Len(line) > Len(words[1])
            /\ \A k \in 1..Len(words[1]) : to_upper(line[k]) = words[1][k]
            /\ line[Len(words[1]) + 1] = SP
    THEN AfterWords(Unspaced(Drop(line, Len(words[1]))), Tail(words))
    ELSE <<>>

\* The numeric lines and arguments a buffer holds behind their keywords,
\* each with its width: <<line, bits>>.
NumericSlots(b) ==
    { <<NumericLineOf(FrameLines(b), row), row[3]>> :
        row \in {r \in NumericLines : HasNumericLine(FrameLines(b), r)} }
    \cup { <<AfterWords(FrameLines(b)[2], row[1]), row[2]>> :
              row \in {r \in NumericArgs : /\ Len(FrameLines(b)) >= 2
                                            /\ FrameLines(b)[1] = B("CMD")} }

\* C6 as the code has it: when a matched keyword is followed by a line that
\* is not empty, holds no "\r" and is rejected by from_str of its width
\* (not a run of decimal digits after an optional "+", or out of range),
\* message returns Err::Failure: the failure of the conversion is the
\* result of the whole alternation, no later alternative replaces it.
C6_NumericLineIsFailure ==
    Called /\ LastFn = "message" =>
        \A slot \in NumericSlots(LastIn) :
            Delimited(slot[1]) /\ from_str(slot[1], slot[2]) = <<>>
                => IsFailure(LastRes)

\* C6 as the specification states it: every line behind the keyword that
\* is no number of the width gives Err::Failure, the empty line and a line
\* with a "\r" among them.
C6_EveryLineIsFailure ==
    Called /\ LastFn = "message" =>
        \A row \in NumericLines :
            /\ HasNumericLine(FrameLines(LastIn), row)
            /\ from_str(NumericLineOf(FrameLines(LastIn), row), row[3]) = <<>>
            => IsFailure(LastRes)

\* an ADD_TEAM difficulty out of the range of u8
C6_Witness ==
    /\ Called /\ LastFn = "message"
    /\ HasNumericLine(FrameLines(LastIn),
                      << <<B("ADD_TEAM")>>, <<0, 8, 0, 0, 0, 0>>, 8 >>)
    /\ <<B("256"), 8>> \in NumericSlots(LastIn)
    /\ LastRes = ErrFailure("ParseIntError")

\* the keywords a frame can begin with
Keywords ==
    { t[1] : t \in Rows(no_arg_table) \cup Rows(single_arg_table)
                   \cup Rows(complex_lines_table) }
    \cup { B("CMD\n"), B("CFG\n"), B("SET_SERVER_VAR\n") }

UnknownKeyword(b) == \A kw \in Keywords : ~IsOk(tag(kw, Stripped(b)))

\* the buffer holds what makes the conversion named by origin fail: bytes
\* of its first frame that are no UTF-8 text, or a line behind a numeric
\* keyword that from_str rejects
ConversionFailed(b, origin) ==
    \/ origin = "Utf8Error" /\ ~from_utf8(FirstFrame(b))
    \/ /\ origin = "ParseIntError"
       /\ \E slot \in NumericSlots(b) :
              slot[1] # <<>> /\ from_str(slot[1], slot[2]) = <<>>

\* C9: message returns Err::Failure only when the UTF-8 conversion or the
\* numeric conversion of a delimited line or token failed; a frame with an
\* unknown keyword, and the frame "QUIT\n1\n2\n\n" of the test, are
\* rejected with Err::Error.
C9_FailureOnlyFromConversions ==
    Called /\ LastFn = "message" =>
        /\ IsFailure(LastRes) => ConversionFailed(LastIn, LastRes[3])
        /\ UnknownKeyword(LastIn) => IsError(LastRes)
        /\ FirstFrame(LastIn) = B("QUIT\n1\n2\n\n") => IsError(LastRes)

\* a line that is no UTF-8 text behind a keyword
C9_Witness ==
    /\ Called /\ LastFn = "message"
    /\ ~UnknownKeyword(LastIn)
    /\ LastRes = ErrFailure("Utf8Error")

\* the top-level keywords with an optional line, and their variants
OptionalKeywords == { <<B("PART"), "Part">>, <<B("QUIT"), "Quit">> }

\* the line of a buffer that is keyword, "\n", line, "\n\n"; no line when
\* the buffer is not of this form
OptionalLines(b, keyword) ==
    IF /\ Len(b) >= Len(keyword) + 3
       /\ Take(b, Len(keyword) + 1) = keyword \o <<NL>>
       /\ Drop(b, Len(b) - 2) = B("\n\n")
    THEN { SubSeq(b, Len(keyword) + 2, Len(b) - 2) }
    ELSE {}

\* the optional arguments of a message
OptionalArgs(m) ==
    CASE m[1] \in {"Part", "Quit", "Greeting"} -> {m[2]}
      [] m[1] \in {"CreateRoom", "JoinRoom"} -> {m[3]}
      [] m[1] = "Cfg" /\ m[2][1] = "Ammo" -> {m[2][3]}
      [] m[1] = "CallVote" /\ m[2] # None /\ m[2][1][1] = "Map" -> {m[2][1][2]}
      [] OTHER -> {}

GarbageEnds(b) ==
    { p \in Terminators(b) : \A q \in Terminators(b) : q + 1 >= p }

\* C3 as the code has it: malformed_message(garbage ++ "\n\n" ++ goodFrame),
\* garbage without an internal "\n\n", succeeds; its remainder is
\* goodFrame when garbage does not end with "\n", and "\n" ++ goodFrame
\* when it does, since the first "\n\n" of the buffer then begins at the
\* last byte of garbage.
C3_ResyncRemainder ==
    Called /\ LastFn = "malformed_message" =>
        \A p \in GarbageEnds(LastIn) :
            LastRes = Ok(IF p > 1 /\ LastIn[p - 1] = NL
                         THEN Drop(LastIn, p) ELSE Drop(LastIn, p + 1), <<>>)

\* C3 as the specification states it: the remainder is goodFrame for every
\* garbage without an internal "\n\n".
C3_RemainderIsGoodFrame ==
    Called /\ LastFn = "malformed_message" =>
        \A p \in GarbageEnds(LastIn) : LastRes = Ok(Drop(LastIn, p + 1), <<>>)

\* garbage that ends with one "\n", before a PING frame
C3_Witness ==
    /\ Called /\ LastFn = "malformed_message"
    /\ LastIn = B("FOO\n") \o B("\n\n") \o B("PING\n\n")
    /\ 5 \in GarbageEnds(LastIn)
    /\ LastRes = Ok(B("\nPING\n\n"), <<>>)

\* the last three calls are message(b), failed on a buffer whose first
\* frame has its terminator, malformed_message(b), and the message call on
\* what the resync left
Resynced ==
    /\ Len(hist) >= 3
    /\ hist[Len(hist) - 2][1] = "message"
    /\ ~IsOk(hist[Len(hist) - 2][3])
    /\ Terminators(Stripped(hist[Len(hist) - 2][2])) # {}
    /\ hist[Len(hist) - 1][1] = "malformed_message"
    /\ hist[Len(hist) - 1][2] = hist[Len(hist) - 2][2]
    /\ IsOk(hist[Len(hist) - 1][3])
    /\ LastFn = "message"

\* the buffer on which the decode before the resync failed
FailedOn == hist[Len(hist) - 2][2]

\* C8 as the code has it: when message(buf) fails on a buffer that holds a
\* frame terminator and begins with one stray "\n" at most, one call of
\* malformed_message(buf) leaves the bytes after the failing frame, and
\* the next message call decodes the frame that follows when it is well
\* formed.
C8_OneResync ==
    Resynced /\ LeadingSeparators(FailedOn) <= 1 =>
        /\ LastIn = AfterFrame(FailedOn)
        /\ IsOk(message(AfterFrame(FailedOn))) => IsOk(LastRes)

\* C8 as the specification states it: the same for every number of stray
\* "\n" bytes at the beginning of the buffer.
C8_OneResyncAnyLead ==
    Resynced =>
        /\ LastIn = AfterFrame(FailedOn)
        /\ IsOk(message(AfterFrame(FailedOn))) => IsOk(LastRes)

\* a stray "\n", a rejected frame, then PING decoded after one resync
C8_Witness ==
    /\ Resynced
    /\ LeadingSeparators(FailedOn) = 1
    /\ FailedOn = B("\nFOO\n\nPING\n\n")
    /\ LastRes = Ok(<<>>, <<"Ping">>)

\* The places k of a buffer b where b is frameA ++ frameB, both ending with
\* a terminator and both decoded by message on their own with nothing left.
FramePairs(b) ==
    { k \in 2..Len(b) - 2 :
        /\ k - 1 \in Terminators(b)
        /\ Len(b) - 1 \in Terminators(b)
        /\ IsOk(message(Take(b, k))) /\ message(Take(b, k))[2] = <<>>
        /\ IsOk(message(Drop(b, k))) /\ message(Drop(b, k))[2] = <<>> }

\* C2: when frameA and frameB are each decoded by message with an empty
\* remainder, message(frameA ++ frameB) yields frameA's message and leaves
\* frameB, byte for byte.
C2_FrameIsolation ==
    Called /\ LastFn = "message" =>
        \A k \in FramePairs(LastIn) :
            LastRes = Ok(Drop(LastIn, k), message(Take(LastIn, k))[3])

\* QUIT without argument before a frame that begins with a separator
C2_Witness ==
    /\ Called /\ LastFn = "message"
    /\ LastIn = B("QUIT\n\n") \o B("\nQUIT\nbye\n\n")
    /\ 6 \in FramePairs(LastIn)
    /\ LastRes = Ok(B("\nQUIT\nbye\n\n"), <<"Quit", None>>)

\* the lines of the first frame of a buffer after the keyword ADD_TEAM, up
\* to the terminator; none when the frame is no terminated ADD_TEAM frame
TeamFrameLines(b) ==
    IF /\ Terminators(Stripped(b)) # {}
       /\ Len(FirstFrame(b)) >= 11
       /\ Take(FirstFrame(b), 9) = B("ADD_TEAM\n")
    THEN Split(SubSeq(FirstFrame(b), 10, Len(FirstFrame(b)) - 2), NL)
    ELSE <<>>

\* an ADD_TEAM frame with its seven fields well formed and fewer than 16
\* lines, that is fewer than 8 records of two lines, after them
ShortRoster(b) ==
    /\ Len(TeamFrameLines(b)) >= 7
    /\ Len(TeamFrameLines(b)) < 7 + 2 * 8
    /\ \A k \in 1..7 :
          FieldOk(TeamFrameLines(b)[k], IF k \in {2, 7} THEN 8 ELSE 0)

\* C5 as the code has it: an ADD_TEAM frame with well-formed fields and
\* fewer than 8 roster records before the terminator never decodes, and
\* message fails with Err::Error when the roster lines present are UTF-8
\* text (a roster line that is not gives the Err::Failure of convert_utf8).
C5_ShortRosterIsError ==
    Called /\ LastFn = "message" /\ ShortRoster(LastIn) =>
        /\ ~IsOk(LastRes)
        /\ from_utf8(FirstFrame(LastIn)) => IsError(LastRes)

\* C5 as the specification states it: the short roster gives Err::Failure.
C5_ShortRosterIsFailure ==
    Called /\ LastFn = "message" /\ ShortRoster(LastIn) => IsFailure(LastRes)

\* seven roster records
C5_Witness ==
    /\ Called /\ LastFn = "message"
    /\ ShortRoster(LastIn)
    /\ Len(TeamFrameLines(LastIn)) = 7 + 2 * 7
    /\ IsError(LastRes)

\* a text behind spaces: it does not begin with a space
ArgOk(t) == TextOk(t) /\ t[1] # SP

\* a token of a space-separated list
TokenOk(t) == TextOk(t) /\ \A k \in 1..Len(t) : t[k] # SP

OptOk(o, P(_)) == o = None \/ P(o[1])

\* a value the parser named p can yield
ValueOk(p, v) ==
    CASE p = "a_line" -> TextOk(v)
      [] p = "opt_arg" -> OptOk(v, TextOk)
      [] OTHER -> TRUE

VoteOk(v) ==
    CASE v[1] = "Kick" -> ArgOk(v[2])
      [] v[1] = "Map" -> OptOk(v[2], ArgOk)
      [] OTHER -> TRUE

ConfigOk(c) ==
    CASE c[1] = "Ammo" -> TextOk(c[2]) /\ OptOk(c[3], TextOk)
      [] c[1] = "Scheme" ->
            TextOk(c[2]) /\ \A k \in 1..Len(c[3]) : TextOk(c[3][k])
      [] OTHER -> ValueOk(RowOf(cfg_single_arg_table, c[1])[2], c[2])

TeamOk(t) ==
    /\ t.owner = <<>> /\ t.hedgehogs_number = 0
    /\ \A f \in {"name", "grave", "fort", "voice_pack", "flag"} : TextOk(t[f])
    /\ Len(t.hedgehogs) = 8
    /\ \A k \in 1..Len(t.hedgehogs) :
          TextOk(t.hedgehogs[k].name) /\ TextOk(t.hedgehogs[k].hat)

\* The messages the decoder can yield: every text is a line the wire can
\* carry (not empty, no "\n", no "\r", UTF-8), a text behind spaces does
\* not begin with a space, a token holds no space, and a team has the
\* owner and the hedgehog count the decoder fills in.
WireSafe(m) ==
    CASE m[1] \in Names(no_arg_table) \cup Names(cmd_no_arg_table)
                  \cup {"RoundFinished", "RestartServer"} -> TRUE
      [] m[1] \in Names(single_arg_table) ->
            ValueOk(RowOf(single_arg_table, m[1])[2], m[2])
      [] m[1] = "CallVote" -> m[2] = None \/ VoteOk(m[2][1])
      [] m[1] \in Names(cmd_single_arg_table) ->
            RowOf(cmd_single_arg_table, m[1])[2] = "a_line" => ArgOk(m[2])
      [] m[1] = "Greeting" -> OptOk(m[2], ArgOk)
      [] m[1] = "Save" -> TokenOk(m[2]) /\ TokenOk(m[3])
      [] m[1] = "Rnd" -> \A k \in 1..Len(m[2]) : TokenOk(m[2][k])
      [] m[1] = "Cfg" -> ConfigOk(m[2])
      [] m[1] = "SetServerVar" ->
            ValueOk(RowOf(server_var_table, m[2][1])[2], m[2][2])
      [] m[1] \in {"CreateRoom", "JoinRoom"} ->
            TextOk(m[2]) /\ OptOk(m[3], TextOk)
      [] m[1] = "AddTeam" -> TeamOk(m[2])
      [] OTHER ->
            \A k \in 1..Len(RowOf(complex_lines_table, m[1])[2]) :
                ValueOk(RowOf(complex_lines_table, m[1])[2][k], m[k + 1])

\* the peer sent a message and the caller's first call decoded the buffer
SentAndDecoded == msg # <<>> /\ Called /\ hist[1][1] = "message"

category_results(i) ==
    << no_arg_message(i),
       single_arg_message(i),
       cmd_message(i),
       config_message(i),
       server_var_message(i),
       complex_message(i) >>

\* C11: the top-level categories are disjoint.  On the input of every
\* message call at most one of the six categories returns anything other
\* than Err::Error, and message returns what it would return with the
\* categories tried in any other order: the result of the alternation in
\* that order, behind which the frame terminator has to follow.
C11_CategoriesDisjoint ==
    Called /\ LastFn = "message" =>
        LET rs == category_results(Stripped(LastIn))
            in_order(o) ==
                terminatedc(Stripped(LastIn),
                    LAMBDA i : alt([k \in DOMAIN rs |-> rs[o[k]]]), end_of_message)
        IN  /\ Cardinality({k \in DOMAIN rs : ~IsError(rs[k])}) <= 1
            /\ \A o \in Permutations(DOMAIN rs) : in_order(o) = LastRes

\* a frame that only complex_message, the last category of the code's
\* order, accepts
C11_Witness ==
    /\ Called /\ LastFn = "message" /\ IsOk(LastRes)
    /\ IsOk(complex_message(Stripped(LastIn)))

\* the lines of the first frame of a buffer that follow the two keyword
\* lines CFG and SCHEME; none when the frame does not begin with them
SchemeLines(b) ==
    IF IsOk(tag(B("CFG\nSCHEME\n"), FirstFrame(b)))
          /\ Terminators(Stripped(b)) # {}
    THEN Split(Take(Drop(FirstFrame(b), Len(B("CFG\nSCHEME\n"))),
                    Len(FirstFrame(b)) - Len(B("CFG\nSCHEME\n\n\n"))), NL)
    ELSE <<>>

\* C12: the SCHEME setting list.  Every successfully decoded frame that
\* begins with the lines CFG and SCHEME gives Cfg(Scheme(name, list)), where
\* name is the line after them and list holds the lines between the name
\* and the frame terminator, in their order: the empty list exactly when
\* the terminator follows the name line, a list without an empty entry
\* otherwise; the bytes after the terminator are the remainder.
C12_SchemeList ==
    Called /\ LastFn = "message" /\ IsOk(LastRes)
           /\ IsOk(tag(B("CFG\nSCHEME\n"), Stripped(LastIn))) =>
        LET ls == SchemeLines(LastIn)
        IN  /\ ls # <<>>
            /\ LastRes = Ok(AfterFrame(LastIn), <<"Cfg", <<"Scheme", ls[1], Tail(ls)>> >>)
            /\ \A k \in 1..Len(ls) : ls[k] # <<>>
            /\ LastRes[3][2][3] = <<>>
                  <=> IsOk(end_of_message(
                          Drop(Stripped(LastIn), Len(B("CFG\nSCHEME\n")) + Len(ls[1]))))

\* a scheme decoded with two different settings behind its name
C12_Witness ==
    /\ Called /\ LastFn = "message" /\ IsOk(LastRes)
    /\ LastRes[3][1] = "Cfg" /\ LastRes[3][2][1] = "Scheme"
    /\ Len(LastRes[3][2][3]) = 2
    /\ LastRes[3][2][3][1] # LastRes[3][2][3][2]

\* C13 as the code has it: on an input that holds neither "\n" nor "\r" the
\* text-line primitive does not wait for a separator.  It returns the whole
\* input with an empty remainder when the input is not empty and is UTF-8
\* text, Err::Error when the input is empty and Err::Failure when it is no
\* UTF-8 text; and when it succeeds with bytes left, they begin with the
\* line ending at which it stopped.
C13_UnterminatedLineAccepted ==
    Called /\ LastFn = "a_line" =>
        /\ (\A k \in 1..Len(LastIn) : LastIn[k] \notin {NL, CR}) =>
               LastRes = IF LastIn = <<>> THEN ErrError
                         ELSE IF from_utf8(LastIn) THEN Ok(<<>>, LastIn)
                         ELSE ErrFailure("Utf8Error")
        /\ IsOk(LastRes) =>
               /\ LastRes[3] # <<>>
               /\ LastIn = LastRes[3] \o LastRes[2]
               /\ LastRes[2] # <<>> => LastRes[2][1] \in {NL, CR}

\* C13 as the specification states it: the text-line primitive never
\* succeeds with a run of bytes that extends to the end of the input.
C13_UnterminatedLineRejected ==
    Called /\ LastFn = "a_line" /\ IsOk(LastRes) => LastRes[2] # <<>>

\* a line of two bytes, without a separator behind it, accepted
C13_Witness ==
    /\ Called /\ LastFn = "a_line"
    /\ Len(LastIn) = 2
    /\ LastRes = Ok(<<>>, LastIn)

\* the calls the loop can still make at most, counted from the bytes in the
\* buffer and the caller's position: a decode that fails is followed by a
\* resync, and a call that succeeds takes two bytes at least
Rank(position, buffer) ==
    2 * Len(buffer) + (CASE position = "run" -> 2
                         [] position = "failed" -> 1
                         [] OTHER -> 0)

\* C14: progress of the decode loop.  The remainder of every successful
\* message or malformed_message call is a suffix of the call's input that
\* is shorter by two bytes at least, and a failed call leaves the buffer
\* as it was; hence every call of the loop that decodes, resyncs on a
\* failure and stops when the resync fails lowers the rank of the loop, a
\* natural number, and the loop comes to its end on every buffer.
C14_LoopTerminates ==
    [][hist' # hist =>
          /\ hist' = Append(hist, <<hist'[Len(hist')][1], buf, hist'[Len(hist')][3]>>)
          /\ IF IsOk(hist'[Len(hist')][3])
             THEN /\ Len(buf') + 2 <= Len(buf)
                  /\ buf' = Drop(buf, Len(buf) - Len(buf'))
                  /\ buf' = hist'[Len(hist')][3][2]
             ELSE buf' = buf
          /\ Rank(pc', buf') < Rank(pc, buf)
          /\ Rank(pc', buf') >= 0]_vars

\* the loop at its end after two successful resyncs or more
C14_Witness ==
    /\ pc = "done"
    /\ Cardinality({k \in 1..Len(hist) :
                       hist[k][1] = "malformed_message" /\ IsOk(hist[k][3])}) >= 2

\* C15: decoded text is never empty and never holds a separator.  In the
\* message of every successful message call, every string field (required
\* arguments, Some(..) optional arguments, SCHEME settings, roster names
\* and hats) is not empty and holds no "\n", and every token of SAVE and
\* of RND holds no space either.
C15_DecodedTextDelimited ==
    Called /\ LastFn = "message" /\ IsOk(LastRes) =>
        LET m == LastRes[3]
            Text(t) == t # <<>> /\ \A k \in 1..Len(t) : t[k] # NL
            Token(t) == Text(t) /\ \A k \in 1..Len(t) : t[k] # SP
            Opt(o) == o = None \/ Text(o[1])
            Value(p, v) ==
                CASE p = "a_line" -> Text(v)
                  [] p = "opt_arg" -> Opt(v)
                  [] OTHER -> TRUE
            Vote(v) ==
                CASE v[1] = "Kick" -> Text(v[2])
                  [] v[1] = "Map" -> Opt(v[2])
                  [] OTHER -> TRUE
            Config(c) ==
                CASE c[1] = "Ammo" -> Text(c[2]) /\ Opt(c[3])
                  [] c[1] = "Scheme" ->
                        Text(c[2]) /\ \A k \in 1..Len(c[3]) : Text(c[3][k])
                  [] OTHER -> Value(RowOf(cfg_single_arg_table, c[1])[2], c[2])
            Team(t) ==
                /\ \A f \in {"name", "grave", "fort", "voice_pack", "flag"} :
                       Text(t[f])
                /\ \A k \in 1..Len(t.hedgehogs) :
                       Text(t.hedgehogs[k].name) /\ Text(t.hedgehogs[k].hat)
        IN  CASE m[1] \in Names(no_arg_table) \cup Names(cmd_no_arg_table)
                           \cup {"RoundFinished", "RestartServer"} -> TRUE
              [] m[1] \in {"Part", "Quit", "Greeting"} -> Opt(m[2])
              [] m[1] \in Names(single_arg_table) ->
                    Value(RowOf(single_arg_table, m[1])[2], m[2])
              [] m[1] = "CallVote" -> m[2] = None \/ Vote(m[2][1])
              [] m[1] \in Names(cmd_single_arg_table) ->
                    Value(RowOf(cmd_single_arg_table, m[1])[2], m[2])
              [] m[1] = "Save" -> Token(m[2]) /\ Token(m[3])
              [] m[1] = "Rnd" -> \A k \in 1..Len(m[2]) : Token(m[2][k])
              [] m[1] = "Cfg" -> Config(m[2])
              [] m[1] = "SetServerVar" ->
                    Value(RowOf(server_var_table, m[2][1])[2], m[2][2])
              [] m[1] \in {"CreateRoom", "JoinRoom"} -> Text(m[2]) /\ Opt(m[3])
              [] m[1] = "AddTeam" -> Team(m[2])
              [] OTHER ->
                    \A k \in 1..Len(RowOf(complex_lines_table, m[1])[2]) :
                        Value(RowOf(complex_lines_table, m[1])[2][k], m[k + 1])

\* a list of two tokens decoded from a raw RND frame
C15_Witness ==
    /\ Called /\ LastFn = "message" /\ IsOk(LastRes)
    /\ msg = <<>>
    /\ LastRes[3][1] = "Rnd" /\ Len(LastRes[3][2]) = 2

====
